---- MODULE Spec2Model ----
(***************************************************************************)
(* Model of the auth-service of ecomerce-micro: AuthService.register and   *)
(* AuthService.login over the users table, with the salted scrypt          *)
(* password secret "<saltHex>:<hashHex>".  Every await of the two async    *)
(* methods is a point where another call may run, so each method is one    *)
(* action per await: the first runs from the call to the resolution of     *)
(* findOne (the query is the call's first access to the table), the next   *)
(* ones from one resolved await to the following one.                      *)
(*                                                                         *)
(* Spec        register and login over the users table                     *)
(* SpecFault   the same with rejecting store and signer calls              *)
(* SpecKdf     hashPassword and verifyPassword on passwords and salts      *)
(* SpecStored  verifyPassword on stored hashes of any length               *)
(* SpecJwt     the signer's tokens and GET /auth/profile against a clock   *)
(* SpecWeb     the frontend's AuthProvider, localStorage and router        *)
(***************************************************************************)
EXTENDS Integers, Sequences, FiniteSets, TLC

\* ---------------------------------------------------------------- bounds
MaxProc == 2        \* calls that may be in flight at once
MaxCalls == 3       \* calls made to the service in one behaviour
MaxKdfSalt == 4     \* salts tried on hashPassword / verifyPassword alone
MaxTime == 26       \* hours the clock of the token harness runs
MaxFaults == 1      \* failures of the store or the signer in one behaviour
MaxFetch == 2       \* fetches of the frontend that may be pending at once

\* ------------------------------------------------------ program constants
SaltBytes == 16     \* randomBytes(16)
KeyLen == 64        \* scrypt(password, salt, 64)
JwtExpiration == 24 \* expiresIn: '1d', in hours

Procs == 1..MaxProc

\* ---------------------------------------------------------------- inputs
\* a string that is only compared is a TLA+ string; a string whose
\* characters are read (password, salt, stored secret) is the sequence of
\* its character codes
Lovelace1 == <<76, 111, 118, 101, 108, 97, 99, 101, 49>>
Secret123 == <<83, 101, 99, 114, 101, 116, 49, 50, 51, 33>>
Wrong == <<119, 114, 111, 110, 103>>

\* the register requests made: two for one email that differ in name and
\* password, one for another email
RegisterDtos ==
    { [op |-> "register", email |-> "ada@example.com", password |-> Lovelace1, name |-> "Ada"],
      [op |-> "register", email |-> "ada@example.com", password |-> Secret123, name |-> "Countess"],
      [op |-> "register", email |-> "bob@example.com", password |-> Secret123, name |-> "Bob"] }

\* the login requests made: each email with each of two passwords
LoginDtos ==
    { [op |-> "login", email |-> e, password |-> pw, name |-> ""] :
        e \in {"ada@example.com", "bob@example.com"}, pw \in {Lovelace1, Secret123} }

\* the values the random generator returns in the service's calls
Seeds == {1, 2}

VARIABLES
    users,           \* the users table: a set of rows
    pc,              \* pc[p]: the await at which call p is suspended
    dto,             \* dto[p]: the registerDto / loginDto of call p
    salt,            \* salt[p]: register's local `salt`
    hashedPassword,  \* hashedPassword[p]: register's local `hashedPassword`
    user,            \* user[p]: the local `user` (created or found row)
    result,          \* result[p]: what the call returned or threw
    before,          \* history: the row of dto[p].email when p was called, if any
    writes,          \* history: number of steps of call p that changed the table
    calls,           \* history: number of calls made so far
    faults,          \* history: faults[p]: store / signer failures in calls on p
    trace,           \* history: trace[p]: the awaited calls of call p that have ended
    kdf,             \* harness applying hashPassword / verifyPassword to inputs
    now,             \* the clock the signer reads, in hours
    issued,          \* the token the signer issued last
    reply,           \* the answer to the last GET /auth/profile
    access_token,    \* AuthProvider state `access_token`
    authUser,        \* AuthProvider state `user`
    localStorage,    \* localStorage item 'access_token'
    inflight,        \* the fetches of the AuthProvider that have not resolved
    settled,         \* history: the last login / register / logout that completed
    atCall,          \* history: atCall[i]: the state when the pending login / register i was called
    stale,           \* history: the logins / registers pending when a logout completed
    disturbed,       \* history: the logins / registers pending when another call changed the session
    location,        \* the router's current path
    rendered         \* the element the router has rendered

\* the variables of the service, of the token harness and of the frontend
service == <<users, pc, dto, salt, hashedPassword, user, result,
             before, writes, calls, faults, trace>>
jwtVars == <<now, issued, reply>>
webVars == <<access_token, authUser, localStorage, inflight, settled,
             atCall, stale, disturbed, location, rendered>>
harness == <<kdf, jwtVars, webVars>>

vars == <<service, harness>>

\* ------------------------------------------------------------ characters
\* a string is the sequence of its character codes
HexDigits == <<48, 49, 50, 51, 52, 53, 54, 55, 56, 57, 97, 98, 99, 100, 101, 102>>
Delimiter == 58

\* value of a hex digit, -1 for any other character
HexVal(c) ==
    IF c >= 48 /\ c <= 57 THEN c - 48
    ELSE IF c >= 97 /\ c <= 102 THEN c - 87
    ELSE IF c >= 65 /\ c <= 70 THEN c - 55
    ELSE -1

\* Buffer.toString('hex'): two lower-case digits per byte
ToHex(bytes) ==
    [i \in 1..(2 * Len(bytes)) |->
        IF i % 2 = 1 THEN HexDigits[(bytes[(i + 1) \div 2] \div 16) + 1]
                     ELSE HexDigits[(bytes[i \div 2] % 16) + 1]]

\* Buffer.from(str, 'hex'): decodes digit pairs, stops at the first pair
\* that is not two hex digits, drops a trailing single character
FromHex(str) ==
    LET pairs == Len(str) \div 2
        valid(k) == HexVal(str[2 * k - 1]) >= 0 /\ HexVal(str[2 * k]) >= 0
        bad == {k \in 1..pairs : ~valid(k)}
        n == IF bad = {} THEN pairs
             ELSE (CHOOSE k \in bad : \A j \in bad : k <= j) - 1
    IN  [k \in 1..n |-> 16 * HexVal(str[2 * k - 1]) + HexVal(str[2 * k])]

\* String.prototype.split(sep) for a one-character separator
RECURSIVE Split(_, _)
Split(str, sep) ==
    LET at == {i \in 1..Len(str) : str[i] = sep} IN
      IF at = {} THEN <<str>>
      ELSE LET k == CHOOSE i \in at : \A j \in at : i <= j
           IN  <<SubSeq(str, 1, k - 1)>> \o Split(SubSeq(str, k + 1, Len(str)), sep)

Join_NoDelimiter(s, h) == s \o h

\* `${salt}:${hashedPassword}`
Join(s, h) == s \o <<Delimiter>> \o h

\* ------------------------------------------------------------------ crypto
\* randomBytes(n): the byte strings the generator may return
Bytes(n, k) == [i \in 1..n |-> (k * 37 + i * 11) % 256]
RandomBytes(n) == { Bytes(n, k) : k \in Seeds }

\* the character of str that enters byte i of the key
At(str, i) == IF str = <<>> THEN 0 ELSE str[((i - 1) % Len(str)) + 1]

\* scrypt(password, salt, keylen): a keylen-byte key, a function of
\* (password, salt) in which each byte mixes a character of each
scrypt(password, s, keylen) ==
    [i \in 1..keylen |->
        (At(password, i) * 31 + At(s, i) * 7 + Len(password) + 3 * Len(s) + i) % 256]

\* crypto.timingSafeEqual(a, b): throws RangeError when the byte lengths differ
timingSafeEqual(a, b) ==
    IF Len(a) # Len(b) THEN "RangeError"
    ELSE IF a = b THEN "true" ELSE "false"

hashPassword_NoSalt(password, s) == ToHex(scrypt(password, <<>>, KeyLen))

\* AuthService.hashPassword
hashPassword(password, s) == ToHex(scrypt(password, s, KeyLen))

\* AuthService.verifyPassword: "true", "false" or the error thrown
verifyPassword(password, s, storedHash) ==
    timingSafeEqual(scrypt(password, s, KeyLen), FromHex(storedHash))

\* ------------------------------------------------------------ values
NoDto == [op |-> "none", email |-> "", password |-> <<>>, name |-> ""]
NoUser == [id |-> 0, email |-> "", name |-> "", password |-> <<>>]
\* JavaScript null, a string, a user object
Null == [type |-> "null"]
Str(s) == [type |-> "string", value |-> s]
Obj(u) == [type |-> "object", id |-> u.id, email |-> u.email, name |-> u.name]
\* no login, register or logout of the frontend has completed
NoOp == [op |-> "", ok |-> FALSE, fetch |-> "none"]
NoSignature == [key |-> "", over |-> <<>>]
NoToken == [sub |-> 0, email |-> "", iat |-> 0, exp |-> 0, sig |-> NoSignature]
NoProfile == [id |-> 0, email |-> "", name |-> ""]
NoResult == [kind |-> "none", exception |-> "", message |-> "",
             access_token |-> NoToken, user |-> NoProfile]

\* ------------------------------------------------------------------ signer
\* the key of the service, and a key that is not the service's
JwtSecret == "JWT_SECRET"
OtherSecret == "not JWT_SECRET"

\* the claims of a token: all it carries but the signature
Claims(token) == [f \in DOMAIN token \ {"sig"} |-> token[f]]

\* the signature of the claims under a key
Signature(claims, key) == [key |-> key, over |-> claims]

\* sign(payload) at time t: the payload with iat and exp, signed
JwtSign(payload, t) ==
    LET claims == payload @@ [iat |-> t, exp |-> t + JwtExpiration]
    IN  claims @@ [sig |-> Signature(claims, JwtSecret)]

\* jwtService.signAsync(payload)
signAsync(payload) == JwtSign(payload, now)

\* the response with the whole user entity as `user`
Response_WithEntity(u) ==
    [kind |-> "ok", exception |-> "", message |-> "",
     access_token |-> signAsync([sub |-> u.id, email |-> u.email]),
     user |-> u]

\* the response with the token signed over the whole user entity
Response_SignsEntity(u) ==
    [kind |-> "ok", exception |-> "", message |-> "",
     access_token |-> signAsync([sub |-> u.id, email |-> u.email,
                                 name |-> u.name, password |-> u.password]),
     user |-> [id |-> u.id, email |-> u.email, name |-> u.name]]

\* the returned { access_token, user: { id, email, name } }
Response(u) ==
    [kind |-> "ok", exception |-> "", message |-> "",
     access_token |-> signAsync([sub |-> u.id, email |-> u.email]),
     user |-> [id |-> u.id, email |-> u.email, name |-> u.name]]

Thrown(exc, msg) ==
    [kind |-> "error", exception |-> exc, message |-> msg,
     access_token |-> NoToken, user |-> NoProfile]

\* the HTTP status of what a POST handler returned or threw:
\* UnauthorizedException carries UNAUTHORIZED, an error that is no
\* HttpException becomes INTERNAL_SERVER_ERROR, a returned value CREATED
StatusOf(r) ==
    IF r.kind = "ok" THEN "CREATED"
    ELSE IF r.exception = "UnauthorizedException" THEN "UNAUTHORIZED"
    ELSE "INTERNAL_SERVER_ERROR"

\* register: throw new UnauthorizedException('User already exists')
UserAlreadyExists == Thrown("UnauthorizedException", "User already exists")

NoSuchUser_Leaky == Thrown("NotFoundException", "User not found")

\* login, no user: throw new UnauthorizedException('Invalid credentials')
NoSuchUser == Thrown("UnauthorizedException", "Invalid credentials")

\* login, isValid false: throw new UnauthorizedException('Invalid credentials')
BadPassword == Thrown("UnauthorizedException", "Invalid credentials")

\* the driver's error for a violated UNIQUE(email), rethrown by save
QueryFailed == Thrown("QueryFailedError", "duplicate key value violates unique constraint")

\* ------------------------------------------------------------ users table
findOne_Never(email) == NoUser

\* userRepository.findOne({ where: { email } })
findOne(email) ==
    IF \E u \in users : u.email = email
    THEN CHOOSE u \in users : u.email = email
    ELSE NoUser

\* id UUID PRIMARY KEY DEFAULT uuid_generate_v4(): a value no row has
NewId == Cardinality(users) + 1

\* email VARCHAR(255) UNIQUE NOT NULL
UniqueViolation(row) == \E u \in users : u.email = row.email

Insert_NoUnique(row) == [row EXCEPT !.id = NewId]

\* the INSERT of save, atomic in the database: the row with its new id,
\* or NoUser when UNIQUE(email) rejects it
Insert(row) ==
    IF UniqueViolation(row) THEN NoUser ELSE [row EXCEPT !.id = NewId]

KdfOff == [pc |-> "off", password |-> <<>>, other |-> <<>>, salt |-> <<>>,
           hashed |-> <<>>, same |-> "", diff |-> ""]

\* no profile request made: the clock at the start, no token issued
NoReply == [status |-> "", body |-> NoProfile, at |-> 0, auth |-> NoToken]
JwtIdle ==
    /\ now = 0
    /\ issued = NoToken
    /\ reply = NoReply

\* the frontend not loaded
WebIdle ==
    /\ access_token = Null
    /\ authUser = Null
    /\ localStorage = Null
    /\ inflight = <<>>
    /\ settled = NoOp
    /\ atCall = <<>>
    /\ stale = {}
    /\ disturbed = {}
    /\ location = ""
    /\ rendered = ""

\* the service as constructed: an empty table, no call made
ServiceInit ==
    /\ users = {}
    /\ pc = [p \in Procs |-> "idle"]
    /\ dto = [p \in Procs |-> NoDto]
    /\ salt = [p \in Procs |-> <<>>]
    /\ hashedPassword = [p \in Procs |-> <<>>]
    /\ user = [p \in Procs |-> NoUser]
    /\ result = [p \in Procs |-> NoResult]
    /\ before = [p \in Procs |-> NoUser]
    /\ writes = [p \in Procs |-> 0]
    /\ calls = 0
    /\ faults = [p \in Procs |-> 0]
    /\ trace = [p \in Procs |-> <<>>]

Init ==
    /\ ServiceInit
    /\ kdf = KdfOff
    /\ JwtIdle
    /\ WebIdle

\* the async method has returned or thrown: its locals are gone
Finish(p, r) ==
    /\ pc' = [pc EXCEPT ![p] = "done"]
    /\ result' = [result EXCEPT ![p] = r]
    /\ salt' = [salt EXCEPT ![p] = <<>>]
    /\ hashedPassword' = [hashedPassword EXCEPT ![p] = <<>>]
    /\ user' = [user EXCEPT ![p] = NoUser]

\* history: a step of call p that changes the table is counted
Wrote(p, sofar) ==
    writes' = [writes EXCEPT ![p] = sofar + (IF users' # users THEN 1 ELSE 0)]

\* history: the first awaited call of call p has ended, with what ran
\* before the next await
Began(p, steps) == trace' = [trace EXCEPT ![p] = steps]

\* history: one more awaited call of call p has ended
Did(p, step) == trace' = [trace EXCEPT ![p] = Append(@, step)]

\* a call d arrives on p (free, or done with its previous call)
Call(p, d) ==
    /\ pc[p] \in {"idle", "done"}
    /\ calls < MaxCalls
    /\ calls' = calls + 1
    /\ dto' = [dto EXCEPT ![p] = d]
    /\ before' = [before EXCEPT ![p] =
           IF \E u \in users : u.email = d.email
           THEN CHOOSE u \in users : u.email = d.email ELSE NoUser]

\* register with the existing user overwritten by the request, not refused
Register_Upsert(p) ==
    \E d \in RegisterDtos :
        /\ Call(p, d)
        /\ LET existingUser == findOne(d.email) IN
             IF existingUser # NoUser
             THEN /\ Finish(p, UserAlreadyExists)
                  /\ Began(p, <<"findOne">>)
                  /\ users' = (users \ {existingUser})
                                \cup {[existingUser EXCEPT !.name = d.name]}
             ELSE /\ \E bytes \in RandomBytes(SaltBytes) :
                         salt' = [salt EXCEPT ![p] = ToHex(bytes)]
                  /\ pc' = [pc EXCEPT ![p] = "reg_hash"]
                  /\ result' = [result EXCEPT ![p] = NoResult]
                  /\ Began(p, <<"findOne", "randomBytes">>)
                  /\ UNCHANGED <<hashedPassword, user, users>>
        /\ UNCHANGED <<faults, harness>>
        /\ Wrote(p, 0)

\* register with the salt computed from the password
Register_SaltFromPassword(p) ==
    \E d \in RegisterDtos :
        /\ Call(p, d)
        /\ LET existingUser == findOne(d.email) IN
             IF existingUser # NoUser
             THEN /\ Finish(p, UserAlreadyExists)
                  /\ Began(p, <<"findOne">>)
             ELSE /\ salt' = [salt EXCEPT ![p] =
                         ToHex([i \in 1..SaltBytes |-> At(d.password, i)])]
                  /\ pc' = [pc EXCEPT ![p] = "reg_hash"]
                  /\ result' = [result EXCEPT ![p] = NoResult]
                  /\ Began(p, <<"findOne", "randomBytes">>)
                  /\ UNCHANGED <<hashedPassword, user>>
        /\ UNCHANGED <<users, faults, harness>>
        /\ Wrote(p, 0)

\* register is called and findOne resolves: an existing user throws,
\* else the salt is drawn and hashPassword is awaited
Register(p) ==
    \E d \in RegisterDtos :
        /\ Call(p, d)
        /\ LET existingUser == findOne(d.email) IN
             IF existingUser # NoUser
             THEN /\ Finish(p, UserAlreadyExists)
                  /\ Began(p, <<"findOne">>)
             ELSE /\ \E bytes \in RandomBytes(SaltBytes) :
                         salt' = [salt EXCEPT ![p] = ToHex(bytes)]
                  /\ pc' = [pc EXCEPT ![p] = "reg_hash"]
                  /\ result' = [result EXCEPT ![p] = NoResult]
                  /\ Began(p, <<"findOne", "randomBytes">>)
                  /\ UNCHANGED <<hashedPassword, user>>
        /\ UNCHANGED <<users, faults, harness>>
        /\ Wrote(p, 0)

\* register that issues the token once the password is hashed, without
\* saving the entity first
RegHash_ThenSign(p) ==
    /\ pc[p] = "reg_hash"
    /\ LET h == hashPassword(dto[p].password, salt[p]) IN
         /\ hashedPassword' = [hashedPassword EXCEPT ![p] = h]
         /\ user' = [user EXCEPT ![p] =
                [id |-> 0, email |-> dto[p].email, name |-> dto[p].name,
                 password |-> Join(salt[p], h)]]
    /\ pc' = [pc EXCEPT ![p] = "reg_sign"]
    /\ UNCHANGED users
    /\ Wrote(p, writes[p])
    /\ Did(p, "hashPassword")
    /\ UNCHANGED <<dto, salt, result, before, calls, faults, harness>>

\* register: hashPassword resolves; the entity is created (no id yet)
\* and save is awaited
RegHash(p) ==
    /\ pc[p] = "reg_hash"
    /\ LET h == hashPassword(dto[p].password, salt[p]) IN
         /\ hashedPassword' = [hashedPassword EXCEPT ![p] = h]
         /\ user' = [user EXCEPT ![p] =
                [id |-> 0, email |-> dto[p].email, name |-> dto[p].name,
                 password |-> Join(salt[p], h)]]
    /\ pc' = [pc EXCEPT ![p] = "reg_save"]
    /\ UNCHANGED users
    /\ Wrote(p, writes[p])
    /\ Did(p, "hashPassword")
    /\ UNCHANGED <<dto, salt, result, before, calls, faults, harness>>

\* save as an upsert on the email: an existing row is replaced
RegSave_Upsert(p) ==
    /\ pc[p] = "reg_save"
    /\ LET row == [user[p] EXCEPT !.id = NewId] IN
         /\ users' = {u \in users : u.email # row.email} \cup {row}
         /\ user' = [user EXCEPT ![p] = row]
         /\ pc' = [pc EXCEPT ![p] = "reg_sign"]
         /\ UNCHANGED <<result, salt, hashedPassword>>
    /\ Wrote(p, writes[p])
    /\ Did(p, "save")
    /\ UNCHANGED <<dto, before, calls, faults, harness>>

\* register that tries a rejected INSERT a second time before it throws
RegSave_RetryOnce(p) ==
    /\ pc[p] = "reg_save"
    /\ LET row == Insert(user[p]) IN
         IF row = NoUser
         THEN IF \E i \in 1..Len(trace[p]) : trace[p][i] = "save"
              THEN /\ Finish(p, QueryFailed)
                   /\ UNCHANGED users
              ELSE UNCHANGED <<users, pc, result, salt, hashedPassword, user>>
         ELSE /\ users' = users \cup {row}
              /\ user' = [user EXCEPT ![p] = row]
              /\ pc' = [pc EXCEPT ![p] = "reg_sign"]
              /\ UNCHANGED <<result, salt, hashedPassword>>
    /\ Wrote(p, writes[p])
    /\ Did(p, "save")
    /\ UNCHANGED <<dto, before, calls, faults, harness>>

\* register: save resolves; a rejected INSERT throws, else signAsync is awaited
RegSave(p) ==
    /\ pc[p] = "reg_save"
    /\ LET row == Insert(user[p]) IN
         IF row = NoUser
         THEN /\ Finish(p, QueryFailed)
              /\ UNCHANGED users
         ELSE /\ users' = users \cup {row}
              /\ user' = [user EXCEPT ![p] = row]
              /\ pc' = [pc EXCEPT ![p] = "reg_sign"]
              /\ UNCHANGED <<result, salt, hashedPassword>>
    /\ Wrote(p, writes[p])
    /\ Did(p, "save")
    /\ UNCHANGED <<dto, before, calls, faults, harness>>

\* register: signAsync resolves; the response is returned
RegSign(p) ==
    /\ pc[p] = "reg_sign"
    /\ Finish(p, Response(user[p]))
    /\ UNCHANGED users
    /\ Wrote(p, writes[p])
    /\ Did(p, "signAsync")
    /\ UNCHANGED <<dto, before, calls, faults, harness>>

\* const [salt, storedHash] = user.password.split(':')
SplitSecret(secret) == Split(secret, Delimiter)

VerifyStored_Swapped(password, secret) ==
    LET parts == SplitSecret(secret) IN
      IF Len(parts) < 2 THEN "TypeError"
      ELSE verifyPassword(password, parts[2], parts[1])

\* verifyPassword on the two parts of the stored secret (a missing part is
\* undefined, which scrypt and Buffer.from reject with a TypeError)
VerifyStored(password, secret) ==
    LET parts == SplitSecret(secret) IN
      IF Len(parts) < 2 THEN "TypeError"
      ELSE verifyPassword(password, parts[1], parts[2])

\* login whose lookup also returns the entity a register has created but
\* not yet saved
Login_SeesPending(p) ==
    \E d \in LoginDtos :
        /\ Call(p, d)
        /\ LET pending == {r \in Procs : pc[r] = "reg_save" /\ user[r].email = d.email}
               found == IF pending # {} THEN user[CHOOSE r \in pending : TRUE]
                        ELSE findOne(d.email) IN
             IF found = NoUser
             THEN Finish(p, NoSuchUser)
             ELSE /\ user' = [user EXCEPT ![p] = found]
                  /\ pc' = [pc EXCEPT ![p] = "login_verify"]
                  /\ result' = [result EXCEPT ![p] = NoResult]
                  /\ UNCHANGED <<salt, hashedPassword>>
        /\ UNCHANGED <<users, faults, harness>>
        /\ Wrote(p, 0)
        /\ Began(p, <<"findOne">>)

\* login is called and findOne resolves: no user throws, else the stored
\* secret is split and verifyPassword is awaited
Login(p) ==
    \E d \in LoginDtos :
        /\ Call(p, d)
        /\ LET found == findOne(d.email) IN
             IF found = NoUser
             THEN Finish(p, NoSuchUser)
             ELSE /\ user' = [user EXCEPT ![p] = found]
                  /\ pc' = [pc EXCEPT ![p] = "login_verify"]
                  /\ result' = [result EXCEPT ![p] = NoResult]
                  /\ UNCHANGED <<salt, hashedPassword>>
        /\ UNCHANGED <<users, faults, harness>>
        /\ Wrote(p, 0)
        /\ Began(p, <<"findOne">>)

\* login without the `if (!isValid)` check
LoginVerify_NoCheck(p) ==
    /\ pc[p] = "login_verify"
    /\ pc' = [pc EXCEPT ![p] = "login_sign"]
    /\ UNCHANGED users
    /\ Wrote(p, writes[p])
    /\ Did(p, "verifyPassword")
    /\ UNCHANGED <<dto, salt, hashedPassword, user, result, before, calls, faults, harness>>

\* login that stores a fresh hash of the password once it has verified
LoginVerify_Rehash(p) ==
    /\ pc[p] = "login_verify"
    /\ LET isValid == VerifyStored(dto[p].password, user[p].password) IN
         IF isValid = "true"
         THEN /\ pc' = [pc EXCEPT ![p] = "login_sign"]
              /\ users' = (users \ {user[p]}) \cup
                    {[user[p] EXCEPT !.password =
                        Join(<<48, 48>>, hashPassword(dto[p].password, <<48, 48>>))]}
              /\ UNCHANGED <<result, salt, hashedPassword, user>>
         ELSE /\ Finish(p, BadPassword)
              /\ UNCHANGED users
    /\ Wrote(p, writes[p])
    /\ Did(p, "verifyPassword")
    /\ UNCHANGED <<dto, before, calls, faults, harness>>

\* login: verifyPassword resolves; false throws, an error propagates,
\* true awaits signAsync
LoginVerify(p) ==
    /\ pc[p] = "login_verify"
    /\ LET isValid == VerifyStored(dto[p].password, user[p].password) IN
         IF isValid = "true"
         THEN /\ pc' = [pc EXCEPT ![p] = "login_sign"]
              /\ UNCHANGED <<result, salt, hashedPassword, user>>
         ELSE IF isValid = "false"
         THEN Finish(p, BadPassword)
         ELSE Finish(p, Thrown(isValid, "rejected input"))
    /\ UNCHANGED users
    /\ Wrote(p, writes[p])
    /\ Did(p, "verifyPassword")
    /\ UNCHANGED <<dto, before, calls, faults, harness>>

\* login: signAsync resolves; the response is returned
LoginSign(p) ==
    /\ pc[p] = "login_sign"
    /\ Finish(p, Response(user[p]))
    /\ UNCHANGED users
    /\ Wrote(p, writes[p])
    /\ Did(p, "signAsync")
    /\ UNCHANGED <<dto, before, calls, faults, harness>>

Next ==
    \E p \in Procs :
        \/ Register(p)
        \/ Login(p)
        \/ RegHash(p)
        \/ RegSave(p)
        \/ RegSign(p)
        \/ LoginVerify(p)
        \/ LoginSign(p)

Spec == Init /\ [][Next]_vars

\* ------------------------------------- the store or the signer failing
\* what a rejected repository call and a rejected signAsync throw
StoreFailed == Thrown("Error", "store unavailable")
SignerFailed == Thrown("Error", "signer unavailable")

RECURSIVE FaultsUpTo(_)
FaultsUpTo(p) == IF p = 0 THEN 0 ELSE faults[p] + FaultsUpTo(p - 1)

\* one more failure, in a call on p
Fault(p) ==
    /\ FaultsUpTo(MaxProc) < MaxFaults
    /\ faults' = [faults EXCEPT ![p] = @ + 1]

\* a findOne whose failure is answered as the domain failure of the method
FindOneFails_AsDomain(p) ==
    \E d \in RegisterDtos \cup LoginDtos :
        /\ Call(p, d)
        /\ Fault(p)
        /\ Finish(p, IF d.op = "login" THEN NoSuchUser ELSE UserAlreadyExists)
        /\ UNCHANGED <<users, harness>>
        /\ Wrote(p, 0)
        /\ Began(p, <<"findOne">>)

\* register or login is called and findOne rejects: the error propagates
FindOneFails(p) ==
    \E d \in RegisterDtos \cup LoginDtos :
        /\ Call(p, d)
        /\ Fault(p)
        /\ Finish(p, StoreFailed)
        /\ UNCHANGED <<users, harness>>
        /\ Wrote(p, 0)
        /\ Began(p, <<"findOne">>)

\* register: save rejects without writing; the error propagates
SaveFails(p) ==
    /\ pc[p] = "reg_save"
    /\ Fault(p)
    /\ Finish(p, StoreFailed)
    /\ UNCHANGED users
    /\ Wrote(p, writes[p])
    /\ Did(p, "save")
    /\ UNCHANGED <<dto, before, calls, harness>>

\* a rejected signAsync after which register deletes the row it saved
SignFails_Rollback(p) ==
    /\ pc[p] \in {"reg_sign", "login_sign"}
    /\ Fault(p)
    /\ Finish(p, SignerFailed)
    /\ users' = IF pc[p] = "reg_sign" THEN users \ {user[p]} ELSE users
    /\ Wrote(p, writes[p])
    /\ Did(p, "signAsync")
    /\ UNCHANGED <<dto, before, calls, harness>>

\* register or login: signAsync rejects; the error propagates
SignFails(p) ==
    /\ pc[p] \in {"reg_sign", "login_sign"}
    /\ Fault(p)
    /\ Finish(p, SignerFailed)
    /\ UNCHANGED users
    /\ Wrote(p, writes[p])
    /\ Did(p, "signAsync")
    /\ UNCHANGED <<dto, before, calls, harness>>

\* the two connections whose calls meet failures
FaultProcs == {p \in Procs : p <= 2}

NextFault ==
    \E p \in FaultProcs :
        \/ Register(p)
        \/ Login(p)
        \/ RegHash(p)
        \/ RegSave(p)
        \/ RegSign(p)
        \/ LoginVerify(p)
        \/ LoginSign(p)
        \/ FindOneFails(p)
        \/ SaveFails(p)
        \/ SignFails(p)

SpecFault == Init /\ [][NextFault]_vars

\* ------------------------------------------- the hasher on its own inputs
KdfPasswords == {Lovelace1, Secret123, Wrong}

InitKdf ==
    /\ ServiceInit
    /\ JwtIdle
    /\ WebIdle
    /\ \E pw \in KdfPasswords, other \in KdfPasswords, k \in 1..MaxKdfSalt :
         kdf = [KdfOff EXCEPT !.pc = "start", !.password = pw, !.other = other,
                              !.salt = ToHex(Bytes(SaltBytes, k))]

\* hashPassword(password, salt)
KdfHash ==
    /\ kdf.pc = "start"
    /\ kdf' = [kdf EXCEPT !.pc = "hashed",
                          !.hashed = hashPassword(kdf.password, kdf.salt)]
    /\ UNCHANGED <<service, jwtVars, webVars>>

\* verifyPassword of the same and of the other password against the hash
KdfVerify ==
    /\ kdf.pc = "hashed"
    /\ kdf' = [kdf EXCEPT !.pc = "verified",
                          !.same = verifyPassword(kdf.password, kdf.salt, kdf.hashed),
                          !.diff = verifyPassword(kdf.other, kdf.salt, kdf.hashed)]
    /\ UNCHANGED <<service, jwtVars, webVars>>

NextKdf == KdfHash \/ KdfVerify

SpecKdf == InitKdf /\ [][NextKdf]_vars

\* ---------------------------- verifyPassword on stored hashes of any length
\* the stored hashes verifyPassword is given: the hash of the password, the
\* hash of another password, and hex strings that decode to fewer or more
\* than KeyLen bytes (cut by a byte, cut by a digit, extended by a byte,
\* empty, broken by a character that is not a hex digit)
StoredHashes(password, other, s) ==
    LET h == hashPassword(password, s) IN
      { h,
        hashPassword(other, s),
        SubSeq(h, 1, 2 * KeyLen - 2),
        SubSeq(h, 1, 2 * KeyLen - 1),
        h \o <<48, 48>>,
        <<>>,
        [h EXCEPT ![5] = 122] }

InitStored ==
    /\ ServiceInit
    /\ JwtIdle
    /\ WebIdle
    /\ \E pw \in KdfPasswords, other \in KdfPasswords, k \in 1..MaxKdfSalt :
         LET s == ToHex(Bytes(SaltBytes, k)) IN
           \E stored \in StoredHashes(pw, other, s) :
               kdf = [KdfOff EXCEPT !.pc = "stored", !.password = pw,
                                    !.other = other, !.salt = s, !.hashed = stored]

\* verifyPassword(password, salt, storedHash)
KdfVerifyStored ==
    /\ kdf.pc = "stored"
    /\ kdf' = [kdf EXCEPT !.pc = "checked",
                          !.same = verifyPassword(kdf.password, kdf.salt, kdf.hashed)]
    /\ UNCHANGED <<service, jwtVars, webVars>>

NextStored == KdfVerifyStored

SpecStored == InitStored /\ [][NextStored]_vars

\* ------------------------------------------------- GET /auth/profile
\* the accounts tokens are issued for
JwtAccounts ==
    { [id |-> 1, email |-> "ada@example.com", name |-> "Ada"],
      [id |-> 2, email |-> "bob@example.com", name |-> "Bob"] }

\* the bodies a caller sends: none, a profile, something else
Bodies ==
    JwtAccounts \cup { NoProfile,
                       [id |-> 99, email |-> "mallory@example.com", name |-> "Mallory"] }

\* what a caller presents as bearer token: nothing, the issued token, the
\* issued token with its subject changed, claims signed with another key
Presented ==
    { NoToken, issued,
      [issued EXCEPT !.sub = 99],
      [issued EXCEPT !.sig = Signature(Claims(issued), OtherSecret)] }

JwtVerify_IgnoreExpiration(token, t) ==
    /\ token # NoToken
    /\ token.sig = Signature(Claims(token), JwtSecret)

\* verification by the signer at time t: the signature is the service's
\* over these claims, and the expiration has not been reached
JwtVerify(token, t) ==
    /\ token # NoToken
    /\ token.sig = Signature(Claims(token), JwtSecret)
    /\ t < token.exp

\* JwtAuthGuard: the request passes with a verified token, else
\* UnauthorizedException
JwtAuthGuard(token, t) == JwtVerify(token, t)

\* AuthController.getProfile(@Body() user): return user
getProfile(body) == body

\* the token harness starts with the service idle and the clock at 0
InitJwt ==
    /\ ServiceInit
    /\ kdf = KdfOff
    /\ JwtIdle
    /\ WebIdle

\* an hour passes; the previous answer has been delivered
Tick ==
    /\ now < MaxTime
    /\ now' = now + 1
    /\ reply' = NoReply
    /\ UNCHANGED <<issued, service, kdf, webVars>>

\* the signer issues the token of an account, as register and login do
Issue ==
    /\ issued = NoToken
    /\ \E a \in JwtAccounts :
          issued' = signAsync([sub |-> a.id, email |-> a.email])
    /\ reply' = NoReply
    /\ UNCHANGED <<now, service, kdf, webVars>>

\* GET /auth/profile with a bearer token and a body
GetProfile ==
    /\ \E token \in Presented, body \in Bodies :
          reply' = IF JwtAuthGuard(token, now)
                   THEN [status |-> "OK", body |-> getProfile(body),
                         at |-> now, auth |-> token]
                   ELSE [status |-> "UNAUTHORIZED", body |-> NoProfile,
                         at |-> now, auth |-> token]
    /\ UNCHANGED <<now, issued, service, kdf, webVars>>

NextJwt == Tick \/ Issue \/ GetProfile

SpecJwt == InitJwt /\ [][NextJwt]_vars

\* ------------------------------------------------------------- frontend
\* !!value
Truthy(value) == value # Null /\ value # Str("")

\* localStorage.setItem(key, value): the item is String(value)
ToItem(value) == IF value = Null THEN Str("null") ELSE value

\* the token of an account as the string the service sends
WireToken(a) == Str(IF a.id = 1 THEN "jwt.ada" ELSE "jwt.bob")

\* what a fetch to /auth/login or /auth/register ends with: the response
\* { access_token, user } of an account, an error response with its
\* message, or a rejection of the fetch itself
Responses ==
    { [ok |-> TRUE, rejected |-> FALSE, message |-> "",
       data |-> [access_token |-> WireToken(a), user |-> Obj(a)]] : a \in JwtAccounts }
    \cup
    { [ok |-> FALSE, rejected |-> r, message |-> m,
       data |-> [access_token |-> Null, user |-> Null]] :
         r \in BOOLEAN, m \in {"Invalid credentials", "User already exists"} }

Paths == {"/", "/login", "/register", "/profile"}
Fetches == 1..MaxFetch

\* how a fetch ended: an ok response, a response with an error status, or
\* a rejection (the request could not be sent)
Outcome(r) == IF r.ok THEN "ok" ELSE IF r.rejected THEN "rejected" ELSE "status"
Outcomes == {"ok", "status", "rejected"}

\* the three places the session is kept in
Snapshot == <<access_token, authUser, localStorage>>
NoSnapshot == <<>>
Pending == {i \in Fetches : inflight[i] \in {"login", "register"}}

\* AuthProvider value: isAuthenticated: !!access_token
isAuthenticated == Truthy(access_token)

PrivateRoute_Open(children, authenticated) == children

\* PrivateRoute: isAuthenticated ? children : <Navigate to="/login" />
PrivateRoute(children, authenticated) ==
    IF authenticated THEN children ELSE "Navigate to /login"

\* the element <Routes> renders at a path
Routes(path, authenticated) ==
    CASE path = "/login" -> "Login"
      [] path = "/register" -> "Register"
      [] path = "/profile" -> PrivateRoute("Profile", authenticated)
      [] path = "/" -> "Navigate to /login"

\* the tree is rendered again after a change of state or of location
Render == rendered' = Routes(location', Truthy(access_token'))

\* the page is loaded: useState(localStorage.getItem('access_token')),
\* useState(null), with or without a token left by an earlier visit
InitWeb ==
    /\ ServiceInit
    /\ kdf = KdfOff
    /\ JwtIdle
    /\ \E item \in {Null} \cup {WireToken(a) : a \in JwtAccounts} :
          /\ localStorage = item
          /\ access_token = item
    /\ authUser = Null
    /\ inflight = [i \in Fetches |-> "none"]
    /\ settled = NoOp
    /\ atCall = [i \in Fetches |-> NoSnapshot]
    /\ stale = {}
    /\ disturbed = {}
    /\ location \in Paths
    /\ rendered = Routes(location, Truthy(access_token))

\* what the frontend leaves alone
notWeb == <<service, kdf, jwtVars>>

\* login / register: the fetch is issued and awaited
WebCall(i, op) ==
    /\ inflight[i] = "none"
    /\ inflight' = [inflight EXCEPT ![i] = op]
    /\ atCall' = [atCall EXCEPT ![i] = Snapshot]
    /\ UNCHANGED <<access_token, authUser, localStorage, settled, stale,
                   disturbed, location>>
    /\ Render
    /\ UNCHANGED notWeb

\* the response handling without localStorage.setItem
WebSettled_NoStore(i, op) ==
    /\ inflight[i] = op
    /\ \E r \in Responses :
          IF r.ok
          THEN /\ access_token' = r.data.access_token
               /\ authUser' = r.data.user
               /\ UNCHANGED localStorage
               /\ settled' = [op |-> op, ok |-> TRUE, fetch |-> Outcome(r)]
               /\ disturbed' = (disturbed \cup Pending) \ {i}
          ELSE /\ UNCHANGED <<access_token, authUser, localStorage>>
               /\ settled' = [op |-> op, ok |-> FALSE, fetch |-> Outcome(r)]
               /\ disturbed' = disturbed \ {i}
    /\ inflight' = [inflight EXCEPT ![i] = "none"]
    /\ atCall' = [atCall EXCEPT ![i] = NoSnapshot]
    /\ stale' = stale \ {i}
    /\ UNCHANGED location
    /\ Render
    /\ UNCHANGED notWeb

\* the response handling that ends the session when the request failed
WebSettled_ClearOnError(i, op) ==
    /\ inflight[i] = op
    /\ \E r \in Responses :
          IF r.ok
          THEN /\ access_token' = r.data.access_token
               /\ authUser' = r.data.user
               /\ localStorage' = ToItem(r.data.access_token)
               /\ settled' = [op |-> op, ok |-> TRUE, fetch |-> Outcome(r)]
               /\ disturbed' = (disturbed \cup Pending) \ {i}
          ELSE /\ access_token' = Null
               /\ authUser' = Null
               /\ localStorage' = Null
               /\ settled' = [op |-> op, ok |-> FALSE, fetch |-> Outcome(r)]
               /\ disturbed' = disturbed \ {i}
    /\ inflight' = [inflight EXCEPT ![i] = "none"]
    /\ atCall' = [atCall EXCEPT ![i] = NoSnapshot]
    /\ stale' = stale \ {i}
    /\ UNCHANGED location
    /\ Render
    /\ UNCHANGED notWeb

\* login / register: the fetch has ended; an ok response sets the token,
\* the user and the localStorage item, anything else is thrown to the caller
WebSettled(i, op) ==
    /\ inflight[i] = op
    /\ \E r \in Responses :
          IF r.ok
          THEN /\ access_token' = r.data.access_token
               /\ authUser' = r.data.user
               /\ localStorage' = ToItem(r.data.access_token)
               /\ settled' = [op |-> op, ok |-> TRUE, fetch |-> Outcome(r)]
               /\ disturbed' = (disturbed \cup Pending) \ {i}
          ELSE /\ UNCHANGED <<access_token, authUser, localStorage>>
               /\ settled' = [op |-> op, ok |-> FALSE, fetch |-> Outcome(r)]
               /\ disturbed' = disturbed \ {i}
    /\ inflight' = [inflight EXCEPT ![i] = "none"]
    /\ atCall' = [atCall EXCEPT ![i] = NoSnapshot]
    /\ stale' = stale \ {i}
    /\ UNCHANGED location
    /\ Render
    /\ UNCHANGED notWeb

WebLogin(i) == WebCall(i, "login")
WebLoginSettled(i) == WebSettled(i, "login")
WebRegister(i) == WebCall(i, "register")
WebRegisterSettled(i) == WebSettled(i, "register")

\* logout's finally block, after the fetch ended as `outcome` ("none": no
\* fetch was made); logout returns
Cleared(outcome) ==
    /\ access_token' = Null
    /\ authUser' = Null
    /\ localStorage' = Null
    /\ settled' = [op |-> "logout", ok |-> TRUE, fetch |-> outcome]
    /\ stale' = stale \cup Pending
    /\ disturbed' = disturbed \cup Pending
    /\ UNCHANGED atCall

\* logout: with a token the fetch is issued and awaited, without one the
\* finally block runs at once
WebLogout(i) ==
    /\ inflight[i] = "none"
    /\ IF Truthy(access_token)
       THEN /\ inflight' = [inflight EXCEPT ![i] = "logout"]
            /\ UNCHANGED <<access_token, authUser, localStorage, settled,
                           atCall, stale, disturbed>>
       ELSE /\ Cleared("none")
            /\ UNCHANGED inflight
    /\ UNCHANGED location
    /\ Render
    /\ UNCHANGED notWeb

\* a logout that clears the session only when the server answered ok and
\* throws otherwise
WebLogoutSettled_OnlyOnOk(i) ==
    /\ inflight[i] = "logout"
    /\ \E outcome \in Outcomes :
          IF outcome = "ok" THEN Cleared(outcome)
          ELSE /\ settled' = [op |-> "logout", ok |-> FALSE, fetch |-> outcome]
               /\ UNCHANGED <<access_token, authUser, localStorage, atCall, stale,
                              disturbed>>
    /\ inflight' = [inflight EXCEPT ![i] = "none"]
    /\ UNCHANGED location
    /\ Render
    /\ UNCHANGED notWeb

\* logout: the fetch has ended; the response is not looked at and a
\* rejection is caught and logged, so every outcome reaches the finally block
WebLogoutSettled(i) ==
    /\ inflight[i] = "logout"
    /\ \E outcome \in Outcomes : Cleared(outcome)
    /\ inflight' = [inflight EXCEPT ![i] = "none"]
    /\ UNCHANGED location
    /\ Render
    /\ UNCHANGED notWeb

\* a link or navigate(path) changes the location
Visit(path) ==
    /\ path # location
    /\ location' = path
    /\ UNCHANGED <<access_token, authUser, localStorage, inflight, settled,
                   atCall, stale, disturbed>>
    /\ Render
    /\ UNCHANGED notWeb

\* the rendered <Navigate to="/login" /> takes effect
NavigateToLogin ==
    /\ rendered = "Navigate to /login"
    /\ location' = "/login"
    /\ UNCHANGED <<access_token, authUser, localStorage, inflight, settled,
                   atCall, stale, disturbed>>
    /\ Render
    /\ UNCHANGED notWeb

\* the page is loaded again: the provider starts from localStorage and the
\* pending fetches are gone
Reload ==
    /\ access_token' = localStorage
    /\ authUser' = Null
    /\ inflight' = [i \in Fetches |-> "none"]
    /\ settled' = NoOp
    /\ atCall' = [i \in Fetches |-> NoSnapshot]
    /\ stale' = {}
    /\ disturbed' = {}
    /\ UNCHANGED <<localStorage, location>>
    /\ Render
    /\ UNCHANGED notWeb

NextWeb ==
    \/ \E i \in Fetches :
          \/ WebLogin(i)
          \/ WebLoginSettled(i)
          \/ WebRegister(i)
          \/ WebRegisterSettled(i)
          \/ WebLogout(i)
          \/ WebLogoutSettled(i)
    \/ \E path \in Paths : Visit(path)
    \/ NavigateToLogin
    \/ Reload

SpecWeb == InitWeb /\ [][NextWeb]_vars

\* ------------------------------------------------------------- properties
RegisterDone(p) == pc[p] = "done" /\ dto[p].op = "register"
LoginDone(p) == pc[p] = "done" /\ dto[p].op = "login"
Succeeded(p) == result[p].kind = "ok"
\* the spec's DuplicateAccount and InvalidCredentials failures
DuplicateAccount(p) == result[p] = UserAlreadyExists
InvalidCredentials(p) ==
    result[p] = Thrown("UnauthorizedException", "Invalid credentials")
Present(email) == \E u \in users : u.email = email

\* C1: in every reachable state of the users table, under any interleaving
\* of register and login calls, no two accounts have the same email.
C1_EmailUnique ==
    \A u, v \in users : u.email = v.email => u = v

\* two registers for one email raced to the save, one was rejected there,
\* and another email was registered too
C1_Witness ==
    /\ Cardinality(users) = 2
    /\ \E p \in Procs : RegisterDone(p) /\ result[p] = QueryFailed

\* C2 (as claimed): of two register calls for one email that both started
\* while the email was absent, exactly one returns a token and profile and
\* the other fails with DuplicateAccount ('User already exists').
C2_LoserSeesDuplicateAccount ==
    \A p, q \in Procs :
        ( /\ p # q
          /\ RegisterDone(p) /\ RegisterDone(q)
          /\ dto[p].email = dto[q].email
          /\ before[p] = NoUser /\ before[q] = NoUser )
        => \/ Succeeded(p) /\ DuplicateAccount(q)
           \/ Succeeded(q) /\ DuplicateAccount(p)

\* C3: a register call made while its email is absent succeeds with a
\* profile carrying that email, unless another call inserted the email
\* while it ran; a register call made once the email is present fails with
\* DuplicateAccount, whatever its name and password.
C3_FirstSucceedsLaterDuplicate ==
    \A p \in Procs : RegisterDone(p) =>
        /\ before[p] # NoUser => DuplicateAccount(p)
        /\ Succeeded(p) => before[p] = NoUser /\ result[p].user.email = dto[p].email
        /\ (before[p] = NoUser /\ ~Succeeded(p)) =>
               writes[p] = 0 /\ Present(dto[p].email)

\* a first register has succeeded and a later one, with another name and
\* password, has been refused
C3_Witness ==
    \E p, q \in Procs :
        /\ p # q /\ RegisterDone(p) /\ RegisterDone(q)
        /\ dto[p].email = dto[q].email
        /\ dto[p].name # dto[q].name /\ dto[p].password # dto[q].password
        /\ Succeeded(p) /\ result[p].user.email = dto[p].email
        /\ before[q] # NoUser /\ DuplicateAccount(q)

\* C4: a register call that fails with DuplicateAccount has performed no
\* write: the account that was there when it was called is still in the
\* table with the same id, name and password secret, and it is the only
\* row of that email.
C4_DuplicateWritesNothing ==
    \A p \in Procs : (RegisterDone(p) /\ DuplicateAccount(p)) =>
        /\ writes[p] = 0
        /\ before[p] # NoUser
        /\ \A u \in users : u.email = dto[p].email => u = before[p]
        /\ before[p] \in users

\* a register with another name and password than the account's was refused
C4_Witness ==
    \E p \in Procs :
        /\ RegisterDone(p) /\ DuplicateAccount(p)
        /\ before[p].name # dto[p].name
        /\ VerifyStored(dto[p].password, before[p].password) = "false"

\* C5: a login for an email that is not in the table and a login for an
\* existing email with a wrong password end with the same outcome, the
\* InvalidCredentials error with the same message.
C5_FailuresIndistinguishable ==
    \A p, q \in Procs :
        ( /\ LoginDone(p) /\ before[p] = NoUser
          /\ LoginDone(q) /\ before[q] # NoUser /\ ~Succeeded(q) )
        => result[p] = result[q] /\ InvalidCredentials(p)

\* both kinds of failed login are there to compare
C5_Witness ==
    \E p, q \in Procs :
        /\ LoginDone(p) /\ before[p] = NoUser /\ ~Succeeded(p)
        /\ LoginDone(q) /\ before[q] # NoUser /\ ~Succeeded(q)
        /\ VerifyStored(dto[q].password, before[q].password) = "false"

\* C6: login returns a token only when the account of the email exists and
\* the password verifies against its stored salt and hash; in every other
\* case it fails with InvalidCredentials and issues no token.
C6_TokenOnlyWhenVerified ==
    \A p \in Procs : LoginDone(p) =>
        LET verified == /\ before[p] # NoUser
                        /\ VerifyStored(dto[p].password, before[p].password) = "true"
        IN  /\ Succeeded(p) => verified /\ result[p].access_token.sub = before[p].id
            /\ ~verified => InvalidCredentials(p) /\ result[p].access_token = NoToken

\* one login was refused for a wrong password while another was let in
C6_Witness ==
    \E p, q \in Procs :
        /\ LoginDone(p) /\ Succeeded(p)
        /\ LoginDone(q) /\ before[q] # NoUser /\ InvalidCredentials(q)

\* C7: a login call, whether it succeeds or fails, leaves the users table
\* unchanged: none of its steps writes.
C7_LoginNeverWrites ==
    \A p \in Procs : dto[p].op = "login" => writes[p] = 0

\* a successful and a failed login have completed
C7_Witness ==
    \E p, q \in Procs :
        /\ LoginDone(p) /\ Succeeded(p)
        /\ LoginDone(q) /\ ~Succeeded(q)
        /\ users # {}

\* C8: an account, once present, is never deleted or changed, and a row
\* appears only by the save of a register call, for an email that had none.
C8_AbsentToPresentOnly ==
    [][ /\ \A u \in users : u \in users'
        /\ users' # users =>
             \E p \in Procs :
                /\ pc[p] = "reg_save" /\ pc'[p] = "reg_sign"
                /\ ~Present(dto[p].email)
                /\ \E row \in users' :
                      /\ users' = users \cup {row}
                      /\ row.email = dto[p].email /\ row.name = dto[p].name
      ]_vars

\* both emails have gone from absent to present
C8_Witness ==
    /\ Cardinality(users) = 2
    /\ \E p \in Procs : RegisterDone(p) /\ ~Succeeded(p)

\* C9: after a successful register, a login with the same email and the
\* identical password succeeds and returns the same id, email and name.
C9_RegisterThenLogin ==
    \A p, q \in Procs :
        ( /\ RegisterDone(p) /\ Succeeded(p)
          /\ LoginDone(q)
          /\ dto[q].email = dto[p].email /\ dto[q].password = dto[p].password )
        => (before[q] = NoUser /\ ~Succeeded(q))
           \/ (Succeeded(q) /\ result[q].user = result[p].user)

\* a register and a login with its email and password have both succeeded
C9_Witness ==
    \E p, q \in Procs :
        /\ RegisterDone(p) /\ Succeeded(p)
        /\ LoginDone(q) /\ Succeeded(q)
        /\ dto[q].email = dto[p].email /\ dto[q].password = dto[p].password
        /\ result[q].user.name = dto[p].name

\* C10: verifyPassword(p, s, hashPassword(p, s)) is true, and
\* verifyPassword(p', s, hashPassword(p, s)) is false for every p' # p.
C10_VerifyIffSamePassword ==
    kdf.pc = "verified" =>
        /\ kdf.same = "true"
        /\ kdf.other # kdf.password => kdf.diff = "false"

\* a password and a different one have been verified against one hash
C10_Witness ==
    /\ kdf.pc = "verified"
    /\ kdf.other # kdf.password
    /\ kdf.same = "true" /\ kdf.diff = "false"

\* C11: verifyPassword returns false, and raises no error, whenever the
\* recomputed hash and the expected hash differ, also when the expected hash
\* decodes to a byte sequence whose length is not 64.
C11_MismatchIsFalse ==
    (/\ kdf.pc = "checked"
     /\ FromHex(kdf.hashed) # scrypt(kdf.password, kdf.salt, KeyLen))
        => kdf.same = "false"

\* the account of the email of call p
Account(p) == CHOOSE u \in users : u.email = dto[p].email

\* C12: no response of register or login contains the password, the salt
\* or the hash: the returned user object has exactly the fields id, email
\* and name (those of the account), next to the access token.
C12_ResponseHasNoSecret ==
    \A p \in Procs : (pc[p] = "done" /\ Succeeded(p)) =>
        /\ DOMAIN result[p].user = {"id", "email", "name"}
        /\ Present(dto[p].email)
        /\ result[p].user = [id |-> Account(p).id, email |-> Account(p).email,
                             name |-> Account(p).name]
        /\ result[p].access_token # NoToken

\* a register and a login have both returned a response for an account
\* whose row holds a stored secret
C12_Witness ==
    \E p, q \in Procs :
        /\ RegisterDone(p) /\ Succeeded(p)
        /\ LoginDone(q) /\ Succeeded(q)
        /\ Present(dto[q].email) /\ Account(q).password # <<>>
        /\ result[q].user.id = Account(q).id

\* C13: every token issued is signed over claims whose sub is the id of the
\* account just created (register) or just verified (login) and whose email
\* is that account's email; it never carries another account's identity, and
\* never the password, the salt or the hash.
C13_TokenClaims ==
    \A p \in Procs : (pc[p] = "done" /\ Succeeded(p)) =>
        LET token == result[p].access_token IN
          /\ DOMAIN Claims(token) = {"sub", "email", "iat", "exp"}
          /\ Present(dto[p].email)
          /\ token.sub = Account(p).id
          /\ token.email = Account(p).email
          /\ token.sig = Signature(Claims(token), JwtSecret)
          /\ RegisterDone(p) => before[p] = NoUser
          /\ LoginDone(p) =>
                VerifyStored(dto[p].password, Account(p).password) = "true"

\* tokens were issued for two different accounts, one by register and one
\* by login
C13_Witness ==
    \E p, q \in Procs :
        /\ RegisterDone(p) /\ Succeeded(p)
        /\ LoginDone(q) /\ Succeeded(q)
        /\ result[p].access_token.sub # result[q].access_token.sub
        /\ result[p].access_token.email # result[q].access_token.email

\* the profile of the account a token was issued for
ProfileOf(token) == CHOOSE a \in JwtAccounts : a.id = token.sub

\* C14: a token the signer issued is accepted by the signer's verification
\* at every time from its issuance until its expiration, one day after the
\* issuance, and is rejected at every time after the expiration.
C14_ValidUntilExpiry ==
    (reply # NoReply /\ issued # NoToken /\ reply.auth = issued) =>
        /\ issued.exp = issued.iat + JwtExpiration
        /\ reply.at >= issued.iat
        /\ reply.at < issued.exp => reply.status = "OK"
        /\ reply.at > issued.exp => reply.status = "UNAUTHORIZED"

\* a token issued after the start was presented after its day had passed
C14_Witness ==
    /\ issued # NoToken /\ issued.iat > 0
    /\ reply.auth = issued
    /\ reply.at > issued.exp
    /\ reply.status = "UNAUTHORIZED"

\* C15: a profile request with a valid, unexpired token is answered with
\* the id, email and name of the account the token was issued for, whatever
\* else the caller sends; a request with a missing, invalid or expired token
\* is answered Unauthorized with no profile.
C15_ProfileOfTokenAccount ==
    reply # NoReply =>
        IF JwtVerify(reply.auth, reply.at)
        THEN reply.status = "OK" /\ reply.body = ProfileOf(reply.auth)
        ELSE reply.status = "UNAUTHORIZED" /\ reply.body = NoProfile

\* C16: a register call for an email that already has an account is
\* answered with the CONFLICT status and 'User already exists', a status
\* distinct from the UNAUTHORIZED status of a failed login.
C16_DuplicateIsConflict ==
    \A p \in Procs : (RegisterDone(p) /\ before[p] # NoUser) =>
        /\ result[p].message = "User already exists"
        /\ StatusOf(result[p]) = "CONFLICT"
        /\ \A q \in Procs : (LoginDone(q) /\ InvalidCredentials(q)) =>
               StatusOf(result[q]) # StatusOf(result[p])

\* C17: when the store or the signer fails during register or login, the
\* call fails with an infrastructure failure that is neither
\* DuplicateAccount nor InvalidCredentials; the fault is never turned into
\* a domain failure or into a success.
C17_FaultIsInfrastructureFailure ==
    [][\A p \in Procs : faults'[p] # faults[p] =>
          /\ pc[p] # "done" \/ dto'[p] # dto[p] \/ calls' # calls
          /\ pc'[p] = "done"
          /\ result'[p].kind = "error"
          /\ result'[p] \in {StoreFailed, SignerFailed}
          /\ result'[p] # UserAlreadyExists
          /\ result'[p] # Thrown("UnauthorizedException", "Invalid credentials")
          /\ StatusOf(result'[p]) = "INTERNAL_SERVER_ERROR"]_vars

\* the signer failed in a register whose account had been saved
C17_Witness ==
    \E p \in Procs :
        /\ faults[p] > 0
        /\ RegisterDone(p) /\ result[p] = SignerFailed
        /\ before[p] = NoUser /\ Present(dto[p].email)

\* C18: the frontend keeps the token in localStorage in step with its
\* authentication state: after any completed login, register or logout the
\* localStorage item 'access_token' equals the context's access_token, and
\* isAuthenticated is true exactly when access_token is not null.
C18_StorageInStep ==
    /\ localStorage = access_token
    /\ isAuthenticated <=> access_token # Null

\* a login has set the token while a logout is still awaiting its fetch
C18_Witness ==
    /\ settled.op = "login" /\ settled.ok
    /\ access_token # Null /\ localStorage = access_token
    /\ authUser # Null
    /\ \E i \in Fetches : inflight[i] = "logout"

RegisterOrder == <<"findOne", "randomBytes", "hashPassword", "save", "signAsync">>
LoginOrder == <<"findOne", "verifyPassword", "signAsync">>
IsPrefix(s, t) == Len(s) <= Len(t) /\ \A i \in 1..Len(s) : s[i] = t[i]

\* C21: register runs lookup, salt generation and hashing, persist, token
\* issuance in this order, and login lookup, verify, token issuance: register
\* issues a token only after the account is saved and login only after the
\* verification returned true, so every issued token names an account that
\* is in the store.
C21_StepsInOrder ==
    \A p \in Procs :
        /\ dto[p].op = "register" => IsPrefix(trace[p], RegisterOrder)
        /\ dto[p].op = "login" => IsPrefix(trace[p], LoginOrder)
        /\ pc[p] = "reg_sign" => user[p] \in users
        /\ pc[p] = "login_sign" =>
              /\ user[p] \in users
              /\ VerifyStored(dto[p].password, user[p].password) = "true"
        /\ (pc[p] = "done" /\ Succeeded(p)) =>
              /\ trace[p] = IF dto[p].op = "register" THEN RegisterOrder ELSE LoginOrder
              /\ \E u \in users : /\ u.id = result[p].access_token.sub
                                  /\ u.email = result[p].access_token.email

\* a register has saved its account and awaits the signer while a login
\* has verified its password and awaits the signer
C21_Witness ==
    \E p, q \in Procs :
        /\ pc[p] = "reg_sign" /\ trace[p][Len(trace[p])] = "save"
        /\ pc[q] = "login_sign" /\ trace[q][Len(trace[q])] = "verifyPassword"

\* a string of hex digits that decodes to n bytes
IsHexOf(str, n) ==
    /\ Len(str) = 2 * n
    /\ \A i \in 1..Len(str) : HexVal(str[i]) >= 0
    /\ Len(FromHex(str)) = n

\* the register request a row was created from
RegisteredAs(u) ==
    CHOOSE d \in RegisterDtos : d.email = u.email /\ d.name = u.name

\* salt, ':' and hash as register joined them
JoinedParts(secret, s, h) ==
    /\ IsHexOf(s, SaltBytes)
    /\ IsHexOf(h, KeyLen)
    /\ secret = Join(s, h)
    /\ SplitSecret(secret) = <<s, h>>

\* C22: every password secret in the store is salt, ':', hash, where salt
\* is the hex encoding of 16 bytes and hash the hex encoding of the 64-byte
\* derivation of (password, salt); ':' occurs in neither part, so splitting
\* the stored string on ':' in login recovers exactly the salt and the hash
\* that register joined.
C22_SecretFormat ==
    /\ \A u \in users :
          /\ Len(u.password) = 2 * SaltBytes + 1 + 2 * KeyLen
          /\ \A i \in 1..Len(u.password) :
                IF i = 2 * SaltBytes + 1 THEN u.password[i] = Delimiter
                ELSE HexVal(u.password[i]) >= 0
    /\ \A p \in Procs : pc[p] \in {"reg_save", "reg_sign"} =>
          /\ JoinedParts(user[p].password, salt[p], hashedPassword[p])
          /\ hashedPassword[p] = hashPassword(dto[p].password, salt[p])
    /\ \A p \in Procs : pc[p] = "login_verify" =>
          LET parts == SplitSecret(user[p].password) IN
            /\ Len(parts) = 2
            /\ JoinedParts(user[p].password, parts[1], parts[2])
            /\ parts[2] = hashPassword(RegisteredAs(user[p]).password, parts[1])

\* a secret is in the store, a login has split it and verified its
\* password, and a register holds the parts it has joined
C22_Witness ==
    /\ \E u \in users : Len(u.password) = 2 * SaltBytes + 1 + 2 * KeyLen
    /\ \E q \in Procs : pc[q] = "login_verify" /\ user[q] \in users
    /\ \E p \in Procs : pc[p] = "reg_save" /\ salt[p] # <<>>

\* the salt part of a stored secret
SaltOf(u) == SubSeq(u.password, 1, 2 * SaltBytes)

\* str holds the characters of word somewhere in a row
Occurs(word, str) ==
    \E i \in 1..(Len(str) - Len(word) + 1) :
        \A k \in 1..Len(word) : str[i + k - 1] = word[k]

\* the salts the generator can give
GeneratedSalts == {ToHex(bytes) : bytes \in RandomBytes(SaltBytes)}

Count(steps, step) == Cardinality({i \in 1..Len(steps) : steps[i] = step})

\* the last awaited call of call p
LastStep(p) == trace[p][Len(trace[p])]

InProgress(p) ==
    pc[p] \in {"reg_hash", "reg_save", "reg_sign", "login_verify", "login_sign"}

\* C24: register and login are single-shot: each call does at most one
\* store lookup, register at most one insert (login none), and each call
\* ends with exactly one outcome (success, DuplicateAccount,
\* InvalidCredentials or an infrastructure failure) at the step that
\* produced it; a failed step is never tried again inside the call.
C24_SingleShot ==
    \A p \in Procs :
        /\ Count(trace[p], "findOne") <= 1
        /\ Count(trace[p], "save") <= (IF dto[p].op = "register" THEN 1 ELSE 0)
        /\ Count(trace[p], "signAsync") <= 1
        /\ writes[p] <= Count(trace[p], "save")
        /\ Len(trace[p]) <= Len(RegisterOrder)
        /\ InProgress(p) => result[p] = NoResult
        /\ pc[p] = "done" =>
              /\ result[p].kind \in {"ok", "error"}
              /\ Succeeded(p) => LastStep(p) = "signAsync"
              /\ DuplicateAccount(p) => trace[p] = <<"findOne">>
              /\ InvalidCredentials(p) => LastStep(p) \in {"findOne", "verifyPassword"}
              /\ result[p] = QueryFailed => LastStep(p) = "save" /\ writes[p] = 0
              /\ result[p] = StoreFailed => LastStep(p) \in {"findOne", "save"} /\ writes[p] = 0
              /\ result[p] = SignerFailed => LastStep(p) = "signAsync"
              /\ result[p].kind = "error" =>
                    \/ DuplicateAccount(p) \/ InvalidCredentials(p)
                    \/ result[p] \in {QueryFailed, StoreFailed, SignerFailed}

\* a register ended at its rejected insert while another call succeeded
\* and a third call is on its way
C24_Witness ==
    \E p, q \in Procs :
        /\ RegisterDone(p) /\ result[p] = QueryFailed /\ LastStep(p) = "save"
        /\ pc[q] = "done" /\ Succeeded(q) /\ Count(trace[q], "save") = 1

\* C25: when a register call has saved the account and the signer then
\* fails, the caller receives a failure but the account stays in the store:
\* a later register with the same email fails with DuplicateAccount and a
\* later login with the registered password succeeds.
C25_SavedAccountSurvivesSignerFailure ==
    \A p \in Procs : (RegisterDone(p) /\ result[p] = SignerFailed) =>
        /\ ~Succeeded(p)
        /\ Present(dto[p].email)
        /\ Account(p).name = dto[p].name
        /\ \A q \in Procs \ {p} : (pc[q] = "done" /\ before[q] = Account(p)) =>
              \/ result[q] \in {StoreFailed, SignerFailed}
              \/ /\ RegisterDone(q) => DuplicateAccount(q)
                 /\ (LoginDone(q) /\ dto[q].password = dto[p].password) => Succeeded(q)
                 /\ (LoginDone(q) /\ dto[q].password # dto[p].password) =>
                        InvalidCredentials(q)

\* the signer failed in a register that had saved its account, and a later
\* login with the registered password has succeeded
C25_Witness ==
    \E p, q \in Procs :
        /\ RegisterDone(p) /\ result[p] = SignerFailed
        /\ LoginDone(q) /\ before[q] # NoUser /\ before[q].email = dto[p].email
        /\ dto[q].password = dto[p].password
        /\ Succeeded(q)

\* the signer failed in a register that had saved its account, and a later
\* register with the same email has been refused
C25_WitnessRegister ==
    \E p, q \in Procs :
        /\ RegisterDone(p) /\ result[p] = SignerFailed
        /\ RegisterDone(q) /\ before[q] # NoUser /\ before[q].email = dto[p].email
        /\ DuplicateAccount(q)

\* a row as register saves it: an id, the request's email and name, a
\* whole secret
Complete(u) ==
    /\ u \in users
    /\ u.id > 0
    /\ u.name = RegisteredAs(u).name
    /\ Len(u.password) = 2 * SaltBytes + 1 + 2 * KeyLen

\* C26: a login that runs concurrently with a register for the same email
\* never observes a partially created account: it either fails with
\* InvalidCredentials (its lookup came before the save) or sees the complete
\* account and succeeds exactly when its password is the registered one.
C26_LoginSeesWholeAccount ==
    \A q \in Procs :
        /\ pc[q] \in {"login_verify", "login_sign"} => Complete(user[q])
        /\ LoginDone(q) =>
              IF before[q] = NoUser THEN InvalidCredentials(q)
              ELSE /\ Complete(before[q])
                   /\ Succeeded(q) <=>
                         dto[q].password = RegisteredAs(before[q]).password
                   /\ ~Succeeded(q) => InvalidCredentials(q)

\* a login has succeeded on an account whose register is saved but has not
\* returned yet, and another login for that email came before the save
C26_Witness ==
    \E p, q \in Procs :
        /\ dto[p].op = "register" /\ pc[p] = "reg_sign"
        /\ dto[q].email = dto[p].email
        /\ LoginDone(q) /\ Succeeded(q)
        /\ before[q] = user[p]

\* C27: the frontend logout always ends with access_token null, user null
\* and the localStorage item removed, whether the logout request succeeds,
\* is answered with an error status or cannot be sent, and it never throws
\* to its caller.
C27_LogoutAlwaysClears ==
    settled.op = "logout" =>
        /\ access_token = Null
        /\ authUser = Null
        /\ localStorage = Null
        /\ settled.ok
        /\ settled.fetch \in Outcomes \cup {"none"}

\* a logout whose request could not be sent has returned, on a session that
\* a login is still pending in
C27_Witness ==
    /\ settled.op = "logout" /\ settled.fetch = "rejected"
    /\ ~isAuthenticated
    /\ Pending # {}

\* a logout whose request was answered with an error status has returned
C27_WitnessStatus == settled.op = "logout" /\ settled.fetch = "status"

\* the step in which the pending login / register i ends without an ok
\* response
FailedStep(i) ==
    /\ inflight[i] \in {"login", "register"}
    /\ inflight'[i] = "none"
    /\ settled'.op = inflight[i]
    /\ settled'.fetch # "ok"

\* C28: a frontend login or register whose request fails or is answered
\* with a non-OK status leaves access_token, user and the localStorage item
\* as they were before the call, and rethrows the error: the failing call
\* writes none of the three, so they are what they were when it was called
\* unless another call of the provider changed them meanwhile.
C28_FailedCallChangesNothing ==
    [][\A i \in Fetches : FailedStep(i) =>
          /\ UNCHANGED Snapshot
          /\ ~settled'.ok
          /\ i \notin disturbed => Snapshot' = atCall[i]]_vars

\* a register answered with an error status has thrown in a session that
\* holds a token and a user
C28_Witness ==
    /\ settled = [op |-> "register", ok |-> FALSE, fetch |-> "status"]
    /\ isAuthenticated /\ authUser # Null /\ localStorage = access_token

\* C29: once a logout has completed, isAuthenticated stays false until a
\* login or register is started after that logout: the response of a login
\* or register that was pending when the logout completed does not
\* authenticate the session again.
C29_StaleResponseIgnored ==
    [][\A i \in stale :
          (inflight'[i] = "none" /\ settled'.op = inflight[i] /\ ~isAuthenticated)
              => ~Truthy(access_token')]_vars

\* C30: in every state of the frontend, the initial state of a provider
\* started with a token in localStorage included, isAuthenticated implies
\* that user is not null.
C30_AuthenticatedHasUser == isAuthenticated => authUser # Null
====
